---------------------------- MODULE Spec2Model ----------------------------
(***************************************************************************)
(* A model of the retrieval-augmented answer pipeline of                   *)
(* endee-rag-assistant: the text chunker (backend/utils/chunker.py), the   *)
(* retrieval normalizer (backend/retriever.py), the citation formatter,    *)
(* the prompt constructor and the answer orchestrator                      *)
(* (backend/rag_pipeline.py), and the ingestion orchestrator with its      *)
(* loaders (backend/ingest.py, backend/utils/pdf_loader.py,                *)
(* backend/utils/docx_loader.py).                                          *)
(*                                                                         *)
(* Python values are tagged records: None, ints, strings.  A Python dict   *)
(* is a TLA+ function from its keys to Python values, so "key in dict" is  *)
(* "key \in DOMAIN dict".  A Python str handled character by character     *)
(* (the chunker's text) is a sequence of one-character strings; a str that *)
(* is only copied and formatted (the retrieval side) is a TLA+ string.     *)
(***************************************************************************)
EXTENDS Integers, Sequences, FiniteSets, TLC

VARIABLES
    \* ---- chunk_text (chunker.py) ----
    text,            \* the text argument
    chunk_size,      \* the chunk_size argument (window size)
    chunk_overlap,   \* the chunk_overlap argument
    metadata,        \* the metadata argument (None or a dict)
    start,           \* the cursor
    chunk_index,     \* the next chunk index
    chunks,          \* the list being built / returned
    iters,           \* number of loop iterations executed (windows examined)
    iterated,        \* the loop state the loop body makes of this one, or None
    cpc,             \* position in chunk_text: "off", "call", "loop", "done"
    \* ---- retriever.py / rag_pipeline.py / endee_client.py ----
    op,              \* the entry point called: "format_citation",
                     \* "construct_prompt", "retrieve", "generate_answer"
    qpc,             \* position in the call
    in_chunk,        \* format_citation's chunk argument
    result,          \* the dict returned by EndeeClient.search
    rchunks,         \* the chunks list (retrieve's output, construct_prompt's input)
    retrieval_result,\* the dict returned by Retriever.retrieve
    context_parts,   \* construct_prompt's context_parts
    prompt,          \* construct_prompt's return value
    ret,             \* the entry point's return value
    raised,          \* the exception that ended the call, or "none"
    gen_calls,       \* number of chat-completion calls made
    now,             \* time.time(), a logical clock in microseconds
    stamps,          \* the time.time() readings taken so far
    \* ---- ingest.py ----
    files,           \* ingest_documents' argument: a list of (content, filename)
    pipeline,        \* self.chunk_size and self.chunk_overlap
    loaded,          \* number of files the load loop has gone through
    all_documents,   \* the sections loaded so far
    doc_chunks,      \* ingest_documents' chunks list
    embeddings,      \* the list returned by generate_embeddings
    vectors,         \* the records prepared for the store
    upsert_result,   \* the dict returned by insert_documents
    store,           \* the index of the vector store: record id -> record
    ipc,             \* position in ingest_documents
    iret,            \* ingest_documents' return value
    iraised,         \* the exception that ended the run, or "none"
    trace,           \* stages entered and external calls made by this run
    run,             \* 1 for the first ingestion, 2 for a re-ingestion
    first_run,       \* the files and vector ids of the first ingestion
    retrieved,       \* chunks retrieved from the store after the ingestion
    index_exists,    \* whether the store holds the index
    index_reply      \* what the last create_index or delete_index returned

chunkVars == <<text, chunk_size, chunk_overlap, metadata, start, chunk_index,
               chunks, iters, iterated, cpc>>

queryVars == <<op, qpc, in_chunk, result, rchunks, retrieval_result,
               context_parts, prompt, ret, raised, gen_calls, now, stamps>>

ingestVars == <<files, pipeline, loaded, all_documents, doc_chunks, embeddings,
                vectors, upsert_result, store, ipc, iret, iraised, trace, run,
                first_run, retrieved, index_exists, index_reply>>

vars == <<chunkVars, queryVars, ingestVars>>

(***************************************************************************)
(* Bounds of the model.                                                    *)
(***************************************************************************)
MaxLen == 4          \* longest enumerated text
MaxWin == 3          \* largest enumerated chunk_size / chunk_overlap
MaxIters == MaxLen + 1   \* most iterations made before an enumerated loop state
MaxHits == 3         \* longest enumerated hit list / chunk list
MaxFiles == 2        \* longest enumerated file list

(***************************************************************************)
(* Python values.                                                          *)
(***************************************************************************)
PyNone == [t |-> "None"]
PyInt(n) == [t |-> "int", v |-> n]
PyStr(s) == [t |-> "str", v |-> s]
EmptyDict == <<>>

Min(a, b) == IF a < b THEN a ELSE b
Max(a, b) == IF a > b THEN a ELSE b
Ceil(a, b) == (a + b - 1) \div b

\* dict.get(key, default)
Get(d, k, default) == IF k \in DOMAIN d THEN d[k] ELSE default

\* {**a, **b}: the keys of both, b's value winning on a shared key
Merge(a, b) ==
    [k \in (DOMAIN a) \cup (DOMAIN b) |-> IF k \in DOMAIN b THEN b[k] ELSE a[k]]

\* s[a:b] on a sequence of characters, with Python's clamping of the bounds
PySlice(s, a, b) ==
    LET n == Len(s)
        lo == IF a < 0 THEN Max(n + a, 0) ELSE Min(a, n)
        hi == IF b < 0 THEN Max(n + b, 0) ELSE Min(b, n)
    IN  IF lo >= hi THEN <<>> ELSE SubSeq(s, lo + 1, hi)

\* the control characters Python counts as whitespace next to the escaped
\* ones: vertical tab and the file, group, record and unit separators
VT == ""   \* '\x0b'
FS == ""   \* '\x1c'
GS == ""   \* '\x1d'
RS == ""   \* '\x1e'
US == ""   \* '\x1f'

\* the ASCII whitespace str.strip() removes (it also removes the non-ASCII
\* spaces, which a string of the module cannot hold)
IsSpace(c) == c \in {" ", "\n", "\t", "\r", "\f", VT, FS, GS, RS, US}

\* A trim that leaves the slice as it is.
Strip_nothing(s) == s

\* str.strip(): drop leading and trailing whitespace
RECURSIVE LStrip(_)
LStrip(s) == IF s /= <<>> /\ IsSpace(Head(s)) THEN LStrip(Tail(s)) ELSE s
RECURSIVE RStrip(_)
RStrip(s) ==
    IF s /= <<>> /\ IsSpace(s[Len(s)]) THEN RStrip(SubSeq(s, 1, Len(s) - 1)) ELSE s
Strip(s) == RStrip(LStrip(s))

(***************************************************************************)
(* chunk_text (chunker.py 9-62).                                           *)
(***************************************************************************)
\* line 32: not text or not text.strip()
IsBlank(s) == s = <<>> \/ Strip(s) = <<>>

\* lines 47-51: {"text": chunk, "chunk_index": chunk_index, **(metadata or {})}
chunk_data(chunk, idx, md) ==
    Merge([text |-> PyStr(chunk), chunk_index |-> PyInt(idx)],
          IF md = PyNone THEN EmptyDict ELSE md)

\* line 56 with the overlap left out
next_start_without_overlap(end, overlap) == end

\* line 56 with the overlap taken off twice
next_start_double_overlap(end, overlap) == end - overlap - overlap

\* line 56: start = end - chunk_overlap
next_start(end, overlap) == end - overlap

\* lines 41-56: one iteration of the loop on the loop state st
chunk_body(s, size, overlap, md, st) ==
    LET end == st.start + size
        chunk == Strip(PySlice(s, st.start, end))
    IN  [start |-> next_start(end, overlap),
         chunk_index |-> IF chunk /= <<>> THEN st.chunk_index + 1 ELSE st.chunk_index,
         chunks |-> IF chunk /= <<>>
                    THEN Append(st.chunks, chunk_data(chunk, st.chunk_index, md))
                    ELSE st.chunks]

\* lines 39 and 59-60: the loop goes on while the cursor is inside the text
loop_continues(s, st) == st.start < Len(s)

\* lines 39-62 as a function of the loop state; like the loop, the
\* recursion ends only if the cursor reaches the end of the text
RECURSIVE chunk_loop(_, _, _, _, _)
chunk_loop(s, size, overlap, md, st) ==
    IF loop_continues(s, st)
    THEN chunk_loop(s, size, overlap, md, chunk_body(s, size, overlap, md, st))
    ELSE st.chunks

chunk_text(s, size, overlap, md) ==
    IF IsBlank(s) THEN <<>>
    ELSE chunk_loop(s, size, overlap, md,
                    [start |-> 0, chunk_index |-> 0, chunks |-> <<>>])

(***************************************************************************)
(* Inputs of the chunker.                                                  *)
(***************************************************************************)
Alphabet == {"A", "B", " "}
Texts == UNION {[1..n -> Alphabet] : n \in 0..MaxLen}

\* texts with the control characters that are whitespace
ControlTexts == {<<VT>>, <<"A", VT, "B">>, <<FS, "A", GS>>, <<RS, US>>}

Rep(c, n) == [i \in 1..n |-> c]
\* "AAAAAAAAAA BBBBBBBBBB CCCCCCCCCC", 32 characters
ExampleText == Rep("A", 10) \o <<" ">> \o Rep("B", 10) \o <<" ">> \o Rep("C", 10)

Metadatas ==
    { PyNone,
      [document_name |-> PyStr(<<"d">>), page_number |-> PyInt(3)],
      [document_name |-> PyStr(<<"d">>), chunk_index |-> PyInt(7)],
      [document_name |-> PyStr(<<"d">>), text |-> PyStr(<<"Z">>)] }

\* the calls that return: chunk_overlap < chunk_size (the loop of the other
\* calls is the subject of LoopStateInit below)
ChunkInit ==
    /\ \/ /\ text \in Texts \cup ControlTexts
          /\ chunk_size \in 1..MaxWin
          /\ chunk_overlap \in 0..(chunk_size - 1)
       \/ /\ text = ExampleText
          /\ chunk_size = 15
          /\ chunk_overlap = 5
    /\ metadata \in Metadatas
    /\ start = 0
    /\ chunk_index = 0
    /\ chunks = <<>>
    /\ iters = 0
    /\ iterated = PyNone
    /\ cpc = "call"

\* lines 32-37: the blank-text early return, or the loop's initial state
ChunkCall ==
    /\ cpc = "call"
    /\ cpc' = IF IsBlank(text) THEN "done" ELSE "loop"
    /\ UNCHANGED <<text, chunk_size, chunk_overlap, metadata, start, chunk_index,
                   chunks, iters, iterated, queryVars, ingestVars>>

\* lines 39-60: one loop iteration, then the exit test
ChunkIter ==
    /\ cpc = "loop"
    /\ loop_continues(text, [start |-> start])
    /\ LET st == chunk_body(text, chunk_size, chunk_overlap, metadata,
                            [start |-> start, chunk_index |-> chunk_index,
                             chunks |-> chunks])
       IN  /\ start' = st.start
           /\ chunk_index' = st.chunk_index
           /\ chunks' = st.chunks
           /\ cpc' = IF loop_continues(text, st) THEN "loop" ELSE "done"
    /\ iters' = iters + 1
    /\ UNCHANGED <<text, chunk_size, chunk_overlap, metadata, iterated, queryVars,
                   ingestVars>>

ChunkNext == ChunkCall \/ ChunkIter

(***************************************************************************)
(* The loop body of chunk_text as a function of the loop state, for the    *)
(* calls with chunk_overlap >= chunk_size.  The loop state of such a call  *)
(* has no bound (the chunk list grows or the cursor falls with every       *)
(* iteration), so what is enumerated is the loop state the call is in      *)
(* after n iterations, and the body is applied to it.                      *)
(***************************************************************************)
\* the loop state of lines 35-37
loop_entry == [start |-> 0, chunk_index |-> 0, chunks |-> <<>>]

\* the loop state after n iterations, or at the loop's exit if that is
\* earlier
RECURSIVE loop_state(_, _, _, _, _)
loop_state(s, size, overlap, md, n) ==
    IF n = 0 THEN loop_entry
    ELSE LET st == loop_state(s, size, overlap, md, n - 1)
         IN  IF loop_continues(s, st) THEN chunk_body(s, size, overlap, md, st)
             ELSE st

\* a call with non-blank text and chunk_overlap >= chunk_size, n iterations
\* into its loop
LoopStateInit ==
    /\ text \in {s \in Texts \cup ControlTexts : ~IsBlank(s)}
    /\ chunk_size \in 1..MaxWin
    /\ chunk_overlap \in chunk_size..MaxWin
    /\ metadata \in Metadatas
    /\ iters \in 0..MaxIters
    /\ LET st == loop_state(text, chunk_size, chunk_overlap, metadata, iters)
       IN  /\ start = st.start
           /\ chunk_index = st.chunk_index
           /\ chunks = st.chunks
           /\ cpc = IF loop_continues(text, st) THEN "loop" ELSE "done"
    /\ iterated = PyNone

\* lines 39-60 applied to the loop state: the next iteration and its exit
\* test
LoopBody ==
    /\ cpc = "loop"
    /\ loop_continues(text, [start |-> start])
    /\ iterated = PyNone
    /\ LET st == chunk_body(text, chunk_size, chunk_overlap, metadata,
                            [start |-> start, chunk_index |-> chunk_index,
                             chunks |-> chunks])
       IN  iterated' = [start |-> st.start, chunk_index |-> st.chunk_index,
                        chunks |-> st.chunks,
                        cpc |-> IF loop_continues(text, st) THEN "loop" ELSE "done"]
    /\ UNCHANGED <<text, chunk_size, chunk_overlap, metadata, start, chunk_index,
                   chunks, iters, cpc, queryVars, ingestVars>>

LoopNext == LoopBody

(***************************************************************************)
(* Python formatting and truth of values.                                  *)
(***************************************************************************)
IsNone(x) == x = PyNone

\* bool(x)
Truthy(x) ==
    CASE x.t = "None" -> FALSE
      [] x.t = "int"  -> x.v /= 0
      [] x.t = "str"  -> x.v /= ""

\* str(x), as an f-string renders it
Str(x) ==
    CASE x.t = "None" -> "None"
      [] x.t = "int"  -> ToString(x.v)
      [] x.t = "str"  -> x.v

RECURSIVE Join(_, _)
\* sep.join(parts)
Join(parts, sep) ==
    IF parts = <<>> THEN ""
    ELSE IF Len(parts) = 1 THEN parts[1]
    ELSE parts[1] \o sep \o Join(Tail(parts), sep)

\* The source writes U+2013 (en dash) between the document name and the
\* location; module strings are ASCII, so it is written "-" here.
EnDash == "-"

(***************************************************************************)
(* RAGPipeline.format_citation (rag_pipeline.py 33-53).                    *)
(***************************************************************************)
\* lines 46-51 with the paragraph test first
location_para_first(chunk) ==
    IF Truthy(Get(chunk, "paragraph_index", PyNone))
    THEN "para " \o Str(chunk["paragraph_index"])
    ELSE IF Truthy(Get(chunk, "page_number", PyNone))
    THEN "page " \o Str(chunk["page_number"])
    ELSE "chunk " \o Str(Get(chunk, "chunk_index", PyInt(0)))

\* lines 46-51
location(chunk) ==
    IF Truthy(Get(chunk, "page_number", PyNone))
    THEN "page " \o Str(chunk["page_number"])
    ELSE IF Truthy(Get(chunk, "paragraph_index", PyNone))
    THEN "para " \o Str(chunk["paragraph_index"])
    ELSE "chunk " \o Str(Get(chunk, "chunk_index", PyInt(0)))

format_citation(chunk) ==
    LET doc_name == Get(chunk, "document_name", PyStr("Unknown"))
    IN  "[" \o Str(doc_name) \o " " \o EnDash \o " " \o location(chunk) \o "]"

(***************************************************************************)
(* RAGPipeline.construct_prompt (rag_pipeline.py 55-92).                   *)
(***************************************************************************)
PromptHead ==
    "You are a helpful assistant that answers questions based on the provided context.\n"
    \o "\nCONTEXT:\n"

PromptInstructions ==
    "\n\nINSTRUCTIONS:\n"
    \o "1. Answer the user's question using ONLY the information from the context above\n"
    \o "2. After EACH sentence in your answer, add an inline citation in the format [source_name - page/section]\n"
    \o "3. Use the exact citation format shown in the context (e.g., [document.pdf - page 5])\n"
    \o "4. If the context doesn't contain enough information to answer, say so clearly\n"
    \o "5. Be concise and accurate\n"
    \o "\nUSER QUESTION:\n"

PromptTail == "\n\nANSWER:"

\* line 70: f"[{idx}] {citation}\n{chunk['text']}\n"
context_block(idx, chunk) ==
    "[" \o ToString(idx) \o "] " \o format_citation(chunk) \o "\n"
        \o Str(chunk["text"]) \o "\n"

\* lines 67-70 numbering the blocks from the end of the list
build_context_reversed(cs) ==
    [i \in 1..Len(cs) |-> context_block(i, cs[Len(cs) + 1 - i])]

\* lines 67-70: enumerate(chunks, 1)
build_context(cs) == [i \in 1..Len(cs) |-> context_block(i, cs[i])]

\* chunk['text'] raises KeyError on a chunk without that key (line 70)
construct_prompt_raises(cs) == \E i \in 1..Len(cs) : "text" \notin DOMAIN cs[i]

\* lines 72-90
prompt_text(q, parts) ==
    PromptHead \o Join(parts, "\n") \o PromptInstructions \o q \o PromptTail

construct_prompt(q, cs) ==
    IF construct_prompt_raises(cs)
    THEN [raised |-> "KeyError", context_parts |-> <<>>, value |-> ""]
    ELSE [raised |-> "none", context_parts |-> build_context(cs),
          value |-> prompt_text(q, build_context(cs))]

(***************************************************************************)
(* Retriever.retrieve, the normalizing loop (retriever.py 86-98).          *)
(***************************************************************************)
\* line 91: item.get("score", 0.0); scores are counted in hundredths
similarity(item) == Get(item, "score", PyInt(0))

\* line 93 read with the citation's default name
normalize_hit_unknown_name(item) ==
    LET md == Get(item, "metadata", EmptyDict)
    IN  [id |-> Get(item, "id", PyStr("")),
         similarity |-> similarity(item),
         text |-> Get(md, "text", PyStr("")),
         document_name |-> Get(md, "document_name", PyStr("Unknown")),
         page_number |-> Get(md, "page_number", PyNone),
         paragraph_index |-> Get(md, "paragraph_index", PyNone),
         chunk_index |-> Get(md, "chunk_index", PyInt(0))]

\* lines 88-97 for an item whose metadata is a dict
normalize_hit(item) ==
    LET md == Get(item, "metadata", EmptyDict)
    IN  [id |-> Get(item, "id", PyStr("")),
         similarity |-> similarity(item),
         text |-> Get(md, "text", PyStr("")),
         document_name |-> Get(md, "document_name", PyStr("")),
         page_number |-> Get(md, "page_number", PyNone),
         paragraph_index |-> Get(md, "paragraph_index", PyNone),
         chunk_index |-> Get(md, "chunk_index", PyInt(0))]

\* metadata.get on None raises AttributeError (line 92)
normalize_raises(res) ==
    \E i \in 1..Len(res) : IsNone(Get(res[i], "metadata", EmptyDict))

\* lines 86-98
normalize(res) ==
    IF normalize_raises(res)
    THEN [raised |-> "AttributeError", chunks |-> <<>>]
    ELSE [raised |-> "none", chunks |-> [i \in 1..Len(res) |-> normalize_hit(res[i])]]

(***************************************************************************)
(* Latency arithmetic.  The clock counts microseconds; a latency in        *)
(* milliseconds rounded to two decimals is a multiple of 10 microseconds.  *)
(***************************************************************************)
\* round(x, 2) on milliseconds: the values it may return, to the nearest 10
\* microseconds.  The code rounds the binary float (time.time() - start) *
\* 1000, so a latency half way between two multiples goes to whichever side
\* the float lies on: either neighbour.
Round2(us) ==
    LET q == us \div 10
        r == us % 10
    IN  IF r < 5 THEN {10 * q}
        ELSE IF r > 5 THEN {10 * (q + 1)}
        ELSE {10 * q, 10 * (q + 1)}

\* the interval read as starting at the origin of the clock
elapsed_since_origin(start_time, end_time) == end_time

\* endee_client.py 138, 145: the clock read before the POST and after the
\* response
elapsed(start_time, end_time) == end_time - start_time

(***************************************************************************)
(* RAGPipeline.generate_answer (rag_pipeline.py 94-163).                   *)
(***************************************************************************)
FallbackAnswer == "I couldn't find any relevant information to answer your question."

\* line 125 read as "never short-circuit"
short_circuits_never(cs) == FALSE

\* line 125: if not chunks
short_circuits(cs) == cs = <<>>

\* lines 126-132
fallback_result(retrieval_latency, total_us) ==
    [answer |-> FallbackAnswer,
     chunks |-> <<>>,
     retrieval_latency_ms |-> retrieval_latency,
     generation_latency_ms |-> 0,
     total_latency_ms |-> total_us]

\* lines 157-163: the results the return may assemble, one per outcome of
\* the three roundings
answer_result(answer, cs, retrieval_latency, generation_us, total_us) ==
    { [answer |-> answer,
       chunks |-> cs,
       retrieval_latency_ms |-> r,
       generation_latency_ms |-> g,
       total_latency_ms |-> t] :
         r \in Round2(retrieval_latency), g \in Round2(generation_us),
         t \in Round2(total_us) }

(***************************************************************************)
(* Inputs of the query side.                                               *)
(***************************************************************************)
Meta(txt, doc) == [text |-> PyStr(txt), document_name |-> PyStr(doc)]

\* Well-formed hits {id, score, metadata}; scores in hundredths, not ranked.
HitPage ==
    [id |-> PyStr("a.pdf_0"), score |-> PyInt(40),
     metadata |-> Merge(Meta("ta", "a.pdf"),
                        [page_number |-> PyInt(3), chunk_index |-> PyInt(0)])]
HitPara ==
    [id |-> PyStr("b.docx_1"), score |-> PyInt(95),
     metadata |-> Merge(Meta("tb", "b.docx"),
                        [paragraph_index |-> PyInt(7), chunk_index |-> PyInt(1)])]
HitBoth ==
    [id |-> PyStr("c_2"), score |-> PyInt(-20),
     metadata |-> Merge(Meta("tc", "c"),
                        [page_number |-> PyInt(3), paragraph_index |-> PyInt(7),
                         chunk_index |-> PyInt(2)])]
HitNeither ==
    [id |-> PyStr("d_4"), score |-> PyInt(150),
     metadata |-> Merge(Meta("td", "d"), [chunk_index |-> PyInt(4)])]
WellFormedHits == {HitPage, HitPara, HitBoth, HitNeither}

\* Malformed hits: a missing id, score or metadata, null or empty metadata.
HitNoId == [score |-> PyInt(10), metadata |-> Meta("te", "e")]
HitNoScore == [id |-> PyStr("f_0"), metadata |-> Meta("tf", "f")]
HitNoMetadata == [id |-> PyStr("g_0"), score |-> PyInt(20)]
HitNullMetadata == [id |-> PyStr("h_0"), score |-> PyInt(30), metadata |-> PyNone]
HitEmptyMetadata == [id |-> PyStr("i_0"), score |-> PyInt(50), metadata |-> EmptyDict]
MalformedHits ==
    {HitNoId, HitNoScore, HitNoMetadata, HitNullMetadata, HitEmptyMetadata}

HitSet == WellFormedHits \cup MalformedHits
HitLists == UNION {[1..n -> HitSet] : n \in 0..MaxHits}

\* The JSON body of a search response: with or without a "results" key.
SearchResponses == {[results |-> hs] : hs \in HitLists} \cup {EmptyDict}

\* Chunks handed to construct_prompt directly: normalized hits, and
\* malformed chunks lacking text, or lacking the name and location keys.
ChunkNoText == [document_name |-> PyStr("a.pdf"), page_number |-> PyInt(3)]
ChunkOnlyText == [text |-> PyStr("tz")]
PromptChunks ==
    {normalize_hit(h) : h \in WellFormedHits} \cup {ChunkNoText, ChunkOnlyText}
PromptChunkLists == UNION {[1..n -> PromptChunks] : n \in 0..MaxHits}

\* Chunks handed to format_citation: every combination of absent / None /
\* falsy / truthy location fields, chunk_index and document_name.
Optional(k, vals) == {EmptyDict} \cup {[x \in {k} |-> val] : val \in vals}
CitationChunks ==
    { Merge(Merge(pg, pa), Merge(ci, dn)) :
        pg \in Optional("page_number", {PyNone, PyInt(0), PyInt(3)}),
        pa \in Optional("paragraph_index", {PyNone, PyInt(0), PyInt(7)}),
        ci \in Optional("chunk_index", {PyInt(0), PyInt(4)}),
        dn \in Optional("document_name", {PyStr("a.pdf")}) }

Query == "q"
Answers == {"ans"}
Durations == {4, 5, 12}  \* microseconds an external call may take

NoStamps == [total_start |-> 0, embed_start |-> 0, search_start |-> 0,
             search_end |-> 0, gen_start |-> 0]

ChunkOff ==
    /\ text = <<>>
    /\ chunk_size = 1
    /\ chunk_overlap = 0
    /\ metadata = PyNone
    /\ start = 0
    /\ chunk_index = 0
    /\ chunks = <<>>
    /\ iters = 0
    /\ iterated = PyNone
    /\ cpc = "off"

QueryIdle ==
    /\ result = [results |-> <<>>, retrieval_latency_ms |-> 0]
    /\ retrieval_result = EmptyDict
    /\ context_parts = <<>>
    /\ prompt = ""
    /\ ret = PyNone
    /\ raised = "none"
    /\ gen_calls = 0
    /\ now = 0
    /\ stamps = NoStamps

QueryOff ==
    /\ op = "off"
    /\ qpc = "off"
    /\ in_chunk = EmptyDict
    /\ rchunks = <<>>
    /\ QueryIdle

\* no ingestion in progress, an empty index
IngestOff ==
    /\ files = <<>>
    /\ pipeline = [chunk_size |-> 500, chunk_overlap |-> 50]
    /\ loaded = 0
    /\ all_documents = <<>>
    /\ doc_chunks = <<>>
    /\ embeddings = <<>>
    /\ vectors = <<>>
    /\ upsert_result = EmptyDict
    /\ store = EmptyDict
    /\ ipc = "off"
    /\ iret = PyNone
    /\ iraised = "none"
    /\ trace = [stages |-> <<>>, embed_calls |-> 0, upsert_calls |-> 0]
    /\ run = 1
    /\ first_run = PyNone
    /\ retrieved = <<>>
    /\ index_exists = FALSE
    /\ index_reply = PyNone

QueryInit ==
    /\ qpc = "call"
    /\ QueryIdle
    /\ \/ /\ op = "format_citation"
          /\ in_chunk \in CitationChunks
          /\ rchunks = <<>>
       \/ /\ op = "construct_prompt"
          /\ in_chunk = EmptyDict
          /\ rchunks \in PromptChunkLists
       \/ /\ op \in {"retrieve", "generate_answer"}
          /\ in_chunk = EmptyDict
          /\ rchunks = <<>>

(***************************************************************************)
(* The entry points, step by step.  Time passes only inside the external   *)
(* calls (embedding, vector search, chat completion).                      *)
(***************************************************************************)
\* format_citation(chunk), rag_pipeline.py 33-53
FormatCitationCall ==
    /\ op = "format_citation"
    /\ qpc = "call"
    /\ ret' = PyStr(format_citation(in_chunk))
    /\ qpc' = "done"
    /\ UNCHANGED <<ingestVars, chunkVars, op, in_chunk, result, rchunks, retrieval_result, context_parts,
                   prompt, raised, gen_calls, now, stamps>>

\* construct_prompt(query, chunks), rag_pipeline.py 55-92
ConstructPromptCall ==
    /\ op = "construct_prompt"
    /\ qpc = "call"
    /\ LET cp == construct_prompt(Query, rchunks)
       IN  /\ raised' = cp.raised
           /\ context_parts' = cp.context_parts
           /\ prompt' = cp.value
           /\ ret' = IF cp.raised = "none" THEN PyStr(cp.value) ELSE PyNone
           /\ qpc' = IF cp.raised = "none" THEN "done" ELSE "raised"
    /\ UNCHANGED <<ingestVars, chunkVars, op, in_chunk, result, rchunks, retrieval_result, gen_calls,
                   now, stamps>>

\* retrieve(query, top_k) entered directly, retriever.py 52-72
RetrieveCall ==
    /\ op = "retrieve"
    /\ qpc = "call"
    /\ qpc' = "embed"
    /\ UNCHANGED <<ingestVars, chunkVars, op, in_chunk, result, rchunks, retrieval_result, context_parts,
                   prompt, ret, raised, gen_calls, now, stamps>>

\* generate_answer(query, top_k) up to its call of retrieve, rag_pipeline.py 94-121
GenerateAnswerCall ==
    /\ op = "generate_answer"
    /\ qpc = "call"
    /\ stamps' = [stamps EXCEPT !.total_start = now]
    /\ qpc' = "embed"
    /\ UNCHANGED <<ingestVars, chunkVars, op, in_chunk, result, rchunks, retrieval_result, context_parts,
                   prompt, ret, raised, gen_calls, now>>

\* generate_query_embedding, retriever.py 35-50 (called at line 75): the
\* embedding provider answers, or its error propagates
Embed ==
    /\ qpc = "embed"
    /\ \E d \in Durations, ok \in BOOLEAN :
          /\ now' = now + d
          /\ stamps' = [stamps EXCEPT !.embed_start = now]
          /\ qpc' = IF ok THEN "search" ELSE "raised"
          /\ raised' = IF ok THEN "none" ELSE "EmbeddingError"
    /\ UNCHANGED <<ingestVars, chunkVars, op, in_chunk, result, rchunks, retrieval_result, context_parts,
                   prompt, ret, gen_calls>>

\* EndeeClient.search, endee_client.py 107-156 (called at retriever.py 78):
\* the latency is measured around the POST alone
Search ==
    /\ qpc = "search"
    /\ \E d \in Durations :
          /\ now' = now + d
          /\ \/ \E resp \in SearchResponses :
                   /\ stamps' = [stamps EXCEPT !.search_start = now,
                                               !.search_end = now + d]
                   /\ \E latency \in Round2(elapsed(now, now + d)) :
                         result' = [results |-> Get(resp, "results", <<>>),
                                    retrieval_latency_ms |-> latency]
                   /\ qpc' = "normalize"
                   /\ raised' = "none"
             \/ /\ stamps' = [stamps EXCEPT !.search_start = now]
                /\ result' = result
                /\ qpc' = "raised"
                /\ raised' = "RequestException"
    /\ UNCHANGED <<ingestVars, chunkVars, op, in_chunk, rchunks, retrieval_result, context_parts, prompt,
                   ret, gen_calls>>

\* retriever.py 86-106: normalize the hits and return
Normalize ==
    /\ qpc = "normalize"
    /\ LET nz == normalize(result["results"])
           rr == [chunks |-> nz.chunks,
                  retrieval_latency_ms |-> result["retrieval_latency_ms"],
                  query |-> Query]
       IN  /\ raised' = nz.raised
           /\ rchunks' = nz.chunks
           /\ retrieval_result' = IF nz.raised = "none" THEN rr ELSE retrieval_result
           /\ ret' = IF nz.raised = "none" /\ op = "retrieve" THEN rr ELSE ret
           /\ qpc' = IF nz.raised /= "none" THEN "raised"
                     ELSE IF op = "retrieve" THEN "done" ELSE "branch"
    /\ UNCHANGED <<ingestVars, chunkVars, op, in_chunk, result, context_parts, prompt, gen_calls, now,
                   stamps>>

\* rag_pipeline.py 122-132: no chunks, the fixed answer
ShortCircuit ==
    /\ qpc = "branch"
    /\ short_circuits(retrieval_result["chunks"])
    /\ ret' = fallback_result(retrieval_result["retrieval_latency_ms"],
                              elapsed(stamps.total_start, now))
    /\ qpc' = "done"
    /\ UNCHANGED <<ingestVars, chunkVars, op, in_chunk, result, rchunks, retrieval_result, context_parts,
                   prompt, raised, gen_calls, now, stamps>>

\* rag_pipeline.py 135: the prompt for the retrieved chunks
BuildPrompt ==
    /\ qpc = "branch"
    /\ ~short_circuits(retrieval_result["chunks"])
    /\ LET cp == construct_prompt(Query, retrieval_result["chunks"])
       IN  /\ raised' = cp.raised
           /\ context_parts' = cp.context_parts
           /\ prompt' = cp.value
           /\ qpc' = IF cp.raised = "none" THEN "generate" ELSE "raised"
    /\ UNCHANGED <<ingestVars, chunkVars, op, in_chunk, result, rchunks, retrieval_result, ret, gen_calls,
                   now, stamps>>

\* rag_pipeline.py 138-163: the chat completion and the assembled result, or
\* the provider's error propagating
Generate ==
    /\ qpc = "generate"
    /\ gen_calls' = gen_calls + 1
    /\ \E d \in Durations :
          /\ now' = now + d
          /\ stamps' = [stamps EXCEPT !.gen_start = now]
          /\ \/ \E answer \in Answers :
                   /\ ret' \in answer_result(answer, retrieval_result["chunks"],
                                            retrieval_result["retrieval_latency_ms"],
                                            elapsed(now, now + d),
                                            elapsed(stamps.total_start, now + d))
                   /\ qpc' = "done"
                   /\ raised' = "none"
             \/ /\ ret' = ret
                /\ qpc' = "raised"
                /\ raised' = "GenerationError"
    /\ UNCHANGED <<ingestVars, chunkVars, op, in_chunk, result, rchunks, retrieval_result, context_parts,
                   prompt>>

QueryNext ==
    \/ FormatCitationCall
    \/ ConstructPromptCall
    \/ RetrieveCall
    \/ GenerateAnswerCall
    \/ Embed
    \/ Search
    \/ Normalize
    \/ ShortCircuit
    \/ BuildPrompt
    \/ Generate

(***************************************************************************)
(* The loaders and load_document.  A file is (content, filename); the      *)
(* filename is a sequence of characters, the content what the reader finds *)
(* in it: whether it can be opened, and the text of each page or paragraph *)
(* (None where a page has no text layer).                                  *)
(***************************************************************************)
UpperCase ==
    <<"A", "B", "C", "D", "E", "F", "G", "H", "I", "J", "K", "L", "M",
      "N", "O", "P", "Q", "R", "S", "T", "U", "V", "W", "X", "Y", "Z">>
LowerCase ==
    <<"a", "b", "c", "d", "e", "f", "g", "h", "i", "j", "k", "l", "m",
      "n", "o", "p", "q", "r", "s", "t", "u", "v", "w", "x", "y", "z">>

\* str.lower(), character by character (ASCII letters)
Lower(s) ==
    [i \in 1..Len(s) |->
        IF \E k \in 1..Len(UpperCase) : UpperCase[k] = s[i]
        THEN LowerCase[CHOOSE k \in 1..Len(UpperCase) : UpperCase[k] = s[i]]
        ELSE s[i]]

\* s.split('.')[-1]: what follows the last dot, or all of s without a dot
RECURSIVE LastPart(_)
LastPart(s) ==
    IF s = <<>> \/ s[Len(s)] = "." THEN <<>>
    ELSE Append(LastPart(SubSeq(s, 1, Len(s) - 1)), s[Len(s)])

\* the filename as the str the sections carry
filename_of(file) == Join(file.name, "")

\* ingest.py 56: filename.lower().split('.')[-1]
file_ext(file) == LastPart(Lower(file.name))

\* pdf_loader.py 35-44 and docx_loader.py 35-44: enumerate(..., start=1),
\* keeping the units with text; n is the number of the next unit
RECURSIVE extract_units(_, _, _, _)
extract_units(units, n, key, filename) ==
    IF n > Len(units) THEN <<>>
    ELSE LET t == units[n]
             has_text == ~IsNone(t) /\ t.v /= <<>> /\ Strip(t.v) /= <<>>
             section == Merge([text |-> PyStr(Strip(t.v)),
                               document_name |-> PyStr(filename)],
                              [k \in {key} |-> PyInt(n)])
         IN  (IF has_text THEN <<section>> ELSE <<>>)
                \o extract_units(units, n + 1, key, filename)

\* pdf_loader.py 11-52: the reader's exception is re-raised
load_pdf(content, filename) ==
    IF content.broken THEN [raised |-> "PdfReadError", docs |-> <<>>]
    ELSE [raised |-> "none",
          docs |-> extract_units(content.units, 1, "page_number", filename)]

\* docx_loader.py 11-52
load_docx(content, filename) ==
    IF content.broken THEN [raised |-> "PackageNotFoundError", docs |-> <<>>]
    ELSE [raised |-> "none",
          docs |-> extract_units(content.units, 1, "paragraph_index", filename)]

\* ingest.py 45-63
load_document(file) ==
    IF file_ext(file) = <<"p", "d", "f">>
    THEN load_pdf(file.content, filename_of(file))
    ELSE IF file_ext(file) \in {<<"d", "o", "c", "x">>, <<"d", "o", "c">>}
         THEN load_docx(file.content, filename_of(file))
         ELSE [raised |-> "ValueError", docs |-> <<>>]

\* the load loop with a failed file emptying what was loaded before it
extend_loaded_or_reset(docs, ld) ==
    IF ld.raised = "none" THEN docs \o ld.docs ELSE <<>>

\* ingest.py 110-115: one pass of the load loop; a file whose load raises
\* is skipped
extend_loaded(docs, ld) ==
    IF ld.raised = "none" THEN docs \o ld.docs ELSE docs

(***************************************************************************)
(* chunk_documents (chunker.py 65-101).                                    *)
(***************************************************************************)
\* the section's location taken for the name alone
doc_metadata_name_only(doc) ==
    [k \in (DOMAIN doc) \cap {"document_name"} |-> doc[k]]

\* line 88: every field of the section but its text
doc_metadata(doc) == [k \in (DOMAIN doc) \ {"text"} |-> doc[k]]

\* lines 84-99: chunk_text on each section in turn, the results appended
RECURSIVE chunk_documents(_, _, _)
chunk_documents(documents, size, overlap) ==
    IF documents = <<>> THEN <<>>
    ELSE LET doc == Head(documents)
         IN  chunk_text(Get(doc, "text", PyStr(<<>>)).v, size, overlap,
                        doc_metadata(doc))
                \o chunk_documents(Tail(documents), size, overlap)

(***************************************************************************)
(* ingest_documents after chunking (ingest.py 145-202) and the store.      *)
(***************************************************************************)
\* ingest.py 83: one embedding per text, in the order of the texts; the
\* vector is represented by the text it embeds
embed_texts(texts) == [j \in 1..Len(texts) |-> [embedding_of |-> texts[j]]]

\* line 156 with the chunk's own chunk_index in place of the loop index
chunk_id_from_chunk_index(chunk, idx) ==
    Str(Get(chunk, "document_name", PyStr("unknown")))
       \o "_" \o Str(Get(chunk, "chunk_index", PyInt(0)))

\* line 156: f"{chunk.get('document_name', 'unknown')}_{idx}"
chunk_id(chunk, idx) ==
    Str(Get(chunk, "document_name", PyStr("unknown"))) \o "_" \o ToString(idx)

\* lines 159-169 with the paragraph index left out
vector_metadata_pages_only(chunk) ==
    Merge([document_name |-> Get(chunk, "document_name", PyStr("")),
           text |-> Get(chunk, "text", PyStr(<<>>)),
           chunk_index |-> Get(chunk, "chunk_index", PyInt(0))],
          [k \in (DOMAIN chunk) \cap {"page_number"} |-> chunk[k]])

\* lines 159-169
vector_metadata(chunk) ==
    Merge([document_name |-> Get(chunk, "document_name", PyStr("")),
           text |-> Get(chunk, "text", PyStr(<<>>)),
           chunk_index |-> Get(chunk, "chunk_index", PyInt(0))],
          [k \in (DOMAIN chunk) \cap {"page_number", "paragraph_index"} |-> chunk[k]])

\* lines 153-176: enumerate(zip(chunks, embeddings)), idx from 0
prepare_vectors(cs, es) ==
    [j \in 1..Min(Len(cs), Len(es)) |->
        [id |-> PyStr(chunk_id(cs[j], j - 1)),
         vector |-> es[j],
         metadata |-> vector_metadata(cs[j])]]

\* the store's upsert: a record replaces the stored record of the same id
upsert(index, vs) ==
    LET ids == {vs[j].id.v : j \in 1..Len(vs)}
        last(id) == CHOOSE j \in 1..Len(vs) :
                       /\ vs[j].id.v = id
                       /\ \A k \in (j + 1)..Len(vs) : vs[k].id.v /= id
    IN  [id \in (DOMAIN index) \cup ids |->
            IF id \in ids THEN vs[last(id)] ELSE index[id]]

\* a hit of the store's search for a stored record
hit_of(record, score) ==
    [id |-> record.id, score |-> PyInt(score), metadata |-> record.metadata]

\* lines 118-123
load_failure ==
    [success |-> FALSE, error |-> "No documents were successfully loaded",
     chunks_created |-> 0, vectors_stored |-> 0]

\* lines 136-141
chunk_failure ==
    [success |-> FALSE, error |-> "No chunks were created",
     chunks_created |-> 0, vectors_stored |-> 0]

\* lines 196-202
ingest_success(fs, cs, upserted) ==
    [success |-> TRUE, files_processed |-> Len(fs), chunks_created |-> Len(cs),
     vectors_stored |-> upserted["count"], upsert_time_ms |-> upserted["elapsed_ms"]]

\* the run carries on after the embedding call whatever its outcome
after_embedding_always_on(ok) == "prepare"

\* line 148: the embeddings, or the provider's exception leaving the run
after_embedding(ok) == IF ok THEN "prepare" ELSE "raised"

(***************************************************************************)
(* Inputs of the ingestion: six files, lists of at most MaxFiles of them,  *)
(* and a pipeline with small windows next to the default one.              *)
(***************************************************************************)
Readable(units) == [broken |-> FALSE, units |-> units]

\* a PDF whose second page is blank: pages 1 and 3 become sections
PdfA ==
    [name |-> <<"a", ".", "p", "d", "f">>,
     content |-> Readable(<< PyStr(<<"A", "B", " ", "C">>), PyStr(<<"\f">>),
                             PyStr(<<"\r", "B", " ">>) >>)]
\* a DOCX with an upper-case extension and a second paragraph of whitespace only
DocxB ==
    [name |-> <<"b", ".", "D", "O", "C", "X">>,
     content |-> Readable(<< PyStr(<<"A">>), PyStr(<<VT, US>>), PyStr(<<"B", "A">>) >>)]
\* a .doc with two dots in its name and a mixed-case extension
DocC ==
    [name |-> <<"c", ".", "v", "2", ".", "D", "o", "c">>,
     content |-> Readable(<< PyStr(<<"C", "A", "B">>) >>)]
\* an unsupported type
TxtD ==
    [name |-> <<"d", ".", "T", "X", "T">>, content |-> Readable(<< PyStr(<<"A">>) >>)]
\* a PDF the reader cannot open
BrokenPdf ==
    [name |-> <<"e", ".", "p", "d", "f">>, content |-> [broken |-> TRUE, units |-> <<>>]]
\* a PDF, by its mixed-case extension, that opens and has no text on any
\* page
BlankPdf ==
    [name |-> <<"f", ".", "P", "d", "f">>, content |-> Readable(<< PyNone, PyStr(<<" ">>) >>)]

IngestFiles == {PdfA, DocxB, DocC, TxtD, BrokenPdf, BlankPdf}
FileLists == UNION {[1..n -> IngestFiles] : n \in 0..MaxFiles}

Pipelines == {[chunk_size |-> 2, chunk_overlap |-> 1],
              [chunk_size |-> 500, chunk_overlap |-> 50]}

\* the JSON body of an upsert response: with or without a "count" key
UpsertResponses(vs) == {[count |-> Len(vs)], EmptyDict}

NoTrace == [stages |-> <<>>, embed_calls |-> 0, upsert_calls |-> 0]

Enter(stage) == [trace EXCEPT !.stages = Append(@, stage)]

IngestInit ==
    /\ files \in FileLists
    /\ pipeline \in Pipelines
    /\ loaded = 0
    /\ all_documents = <<>>
    /\ doc_chunks = <<>>
    /\ embeddings = <<>>
    /\ vectors = <<>>
    /\ upsert_result = EmptyDict
    /\ store = EmptyDict
    /\ ipc = "call"
    /\ iret = PyNone
    /\ iraised = "none"
    /\ trace = NoTrace
    /\ run = 1
    /\ first_run = PyNone
    /\ retrieved = <<>>
    /\ index_exists = FALSE
    /\ index_reply = PyNone

(***************************************************************************)
(* ingest_documents (ingest.py 88-202), step by step.                      *)
(***************************************************************************)
\* lines 101-108: the run starts with nothing loaded
IngestCall ==
    /\ ipc = "call"
    /\ ipc' = "load"
    /\ trace' = Enter("Loading")
    /\ UNCHANGED <<chunkVars, queryVars, files, pipeline, loaded, all_documents,
                   doc_chunks, embeddings, vectors, upsert_result, store, iret,
                   iraised, run, first_run, retrieved,
                   index_exists, index_reply>>

\* lines 109-115: the next file is loaded, or skipped when its load raises
LoadFile ==
    /\ ipc = "load"
    /\ loaded < Len(files)
    /\ all_documents' = extend_loaded(all_documents, load_document(files[loaded + 1]))
    /\ loaded' = loaded + 1
    /\ UNCHANGED <<chunkVars, queryVars, files, pipeline, doc_chunks, embeddings,
                   vectors, upsert_result, store, ipc, iret, iraised, trace, run,
                   first_run, retrieved,
                   index_exists, index_reply>>

\* lines 117-125: after the last file, the failure return when nothing loaded
LoadedCheck ==
    /\ ipc = "load"
    /\ loaded = Len(files)
    /\ ipc' = IF all_documents = <<>> THEN "done" ELSE "chunk"
    /\ iret' = IF all_documents = <<>> THEN load_failure ELSE iret
    /\ UNCHANGED <<chunkVars, queryVars, files, pipeline, loaded, all_documents,
                   doc_chunks, embeddings, vectors, upsert_result, store,
                   iraised, trace, run, first_run, retrieved,
                   index_exists, index_reply>>

\* lines 127-143: chunk_documents, and the failure return when it is empty
ChunkDocuments ==
    /\ ipc = "chunk"
    /\ trace' = Enter("Chunking")
    /\ LET cs == chunk_documents(all_documents, pipeline.chunk_size,
                                 pipeline.chunk_overlap)
       IN  /\ doc_chunks' = cs
           /\ ipc' = IF cs = <<>> THEN "done" ELSE "embed"
           /\ iret' = IF cs = <<>> THEN chunk_failure ELSE iret
    /\ UNCHANGED <<chunkVars, queryVars, files, pipeline, loaded, all_documents,
                   embeddings, vectors, upsert_result, store, iraised, run,
                   first_run, retrieved,
                   index_exists, index_reply>>

\* lines 145-149 and generate_embeddings (65-86): one call for all texts; the
\* provider answers or its error leaves the run
GenerateEmbeddings ==
    /\ ipc = "embed"
    /\ trace' = [Enter("Embedding") EXCEPT !.embed_calls = @ + 1]
    /\ \E ok \in BOOLEAN :
          /\ ipc' = after_embedding(ok)
          /\ embeddings' = IF ok
                           THEN embed_texts([j \in 1..Len(doc_chunks) |->
                                                doc_chunks[j]["text"]])
                           ELSE embeddings
          /\ iraised' = IF ok THEN "none" ELSE "EmbeddingError"
    /\ UNCHANGED <<chunkVars, queryVars, files, pipeline, loaded, all_documents,
                   doc_chunks, vectors, upsert_result, store, iret, run,
                   first_run, retrieved,
                   index_exists, index_reply>>

\* lines 151-178: the records for the store
PrepareVectors ==
    /\ ipc = "prepare"
    /\ vectors' = prepare_vectors(doc_chunks, embeddings)
    /\ ipc' = "store"
    /\ UNCHANGED <<chunkVars, queryVars, files, pipeline, loaded, all_documents,
                   doc_chunks, embeddings, upsert_result, store, iret, iraised,
                   trace, run, first_run, retrieved,
                   index_exists, index_reply>>

\* lines 180-185 and EndeeClient.insert_documents (endee_client.py 67-105):
\* one POST of all records; the store takes them into the index it holds
\* and answers, or the request error (always so without the index) leaves
\* the run
InsertDocuments ==
    /\ ipc = "store"
    /\ trace' = [Enter("Storing") EXCEPT !.upsert_calls = @ + 1]
    /\ \/ \E resp \in UpsertResponses(vectors), d \in Durations :
             /\ index_exists
             /\ store' = upsert(store, vectors)
             /\ \E elapsed_ms \in Round2(elapsed(0, d)) :
                   upsert_result' = Merge(resp, [elapsed_ms |-> elapsed_ms])
             /\ ipc' = "report"
             /\ iraised' = "none"
       \/ /\ UNCHANGED <<store, upsert_result>>
          /\ ipc' = "raised"
          /\ iraised' = "RequestException"
    /\ UNCHANGED <<chunkVars, queryVars, files, pipeline, loaded, all_documents,
                   doc_chunks, embeddings, vectors, iret, run, first_run,
                   retrieved,
                   index_exists, index_reply>>

\* lines 187-202: the statistics; upsert_result['count'] raises KeyError
\* when the response had no count
IngestReturn ==
    /\ ipc = "report"
    /\ IF "count" \in DOMAIN upsert_result
       THEN /\ iret' = ingest_success(files, doc_chunks, upsert_result)
            /\ ipc' = "done"
            /\ trace' = Enter("Complete")
            /\ iraised' = iraised
       ELSE \* the banner of line 188 is printed before line 192 raises
            /\ iraised' = "KeyError"
            /\ ipc' = "raised"
            /\ trace' = Enter("Complete")
            /\ iret' = iret
    /\ UNCHANGED <<chunkVars, queryVars, files, pipeline, loaded, all_documents,
                   doc_chunks, embeddings, vectors, upsert_result, store, run,
                   first_run, retrieved,
                   index_exists, index_reply>>

Reverse(q) == [j \in 1..Len(q) |-> q[Len(q) + 1 - j]]

\* a second call of ingest_documents on the same index: with the same file
\* list, with the list reversed, or without its first file
Reingest ==
    /\ ipc = "done"
    /\ iret.success
    /\ run = 1
    /\ files' \in {files, Reverse(files), Tail(files)}
    /\ run' = 2
    /\ first_run' = [files |-> files, vectors |-> vectors]
    /\ loaded' = 0
    /\ all_documents' = <<>>
    /\ doc_chunks' = <<>>
    /\ embeddings' = <<>>
    /\ vectors' = <<>>
    /\ upsert_result' = EmptyDict
    /\ ipc' = "call"
    /\ iret' = PyNone
    /\ trace' = NoTrace
    /\ UNCHANGED <<chunkVars, queryVars, pipeline, store, iraised, retrieved,
                   index_exists, index_reply>>

\* the hit lists a search of the index may return: any single record, or
\* all records of the run, last first, while the index still holds them;
\* none from an index that was deleted and created again
StoreHitLists ==
    {<<hit_of(store[id], 90)>> : id \in DOMAIN store}
       \cup (IF \A j \in 1..Len(vectors) : vectors[j].id.v \in DOMAIN store
             THEN {[j \in 1..Len(vectors) |->
                      hit_of(store[vectors[Len(vectors) + 1 - j].id.v], 90 - j)]}
             ELSE {<<>>})

\* Retriever.retrieve on the index just filled (retriever.py 78-98)
RetrieveStored ==
    /\ ipc = "done"
    /\ iret.success
    /\ run = 1
    /\ index_exists
    /\ \E hits \in StoreHitLists : retrieved' = normalize(hits).chunks
    /\ ipc' = "retrieved"
    /\ UNCHANGED <<chunkVars, queryVars, files, pipeline, loaded, all_documents,
                   doc_chunks, embeddings, vectors, upsert_result, store, iret,
                   iraised, trace, run, first_run, index_exists, index_reply>>

IndexName == "rag_documents"

\* the body of a 2xx response of the store to an index request
ServerJson == [t |-> "json"]

RequestError == [t |-> "raise", exc |-> "RequestException"]

\* EndeeClient.create_index (endee_client.py 27-65), as main.py calls it at
\* startup (main.py 122-130): the store creates the index; or answers 409
\* for the index it already holds, and the index is left as it is; or the
\* request fails
CreateIndex ==
    /\ ipc \in {"call", "done"}
    /\ \/ /\ ~index_exists
          /\ index_exists' = TRUE
          /\ store' = EmptyDict
          /\ index_reply' = ServerJson
       \/ /\ index_exists
          /\ index_reply' = [status |-> "exists", index_name |-> IndexName]
          /\ UNCHANGED <<index_exists, store>>
       \/ /\ index_reply' = RequestError
          /\ UNCHANGED <<index_exists, store>>
    /\ UNCHANGED <<chunkVars, queryVars, files, pipeline, loaded, all_documents,
                   doc_chunks, embeddings, vectors, upsert_result, ipc, iret,
                   iraised, trace, run, first_run, retrieved>>

\* EndeeClient.delete_index (endee_client.py 158-178): the store drops the
\* index with every record in it; or the request fails, as it does for an
\* index the store does not hold
DeleteIndex ==
    /\ ipc \in {"call", "done"}
    /\ \/ /\ index_exists
          /\ index_exists' = FALSE
          /\ store' = EmptyDict
          /\ index_reply' = ServerJson
       \/ /\ index_reply' = RequestError
          /\ UNCHANGED <<index_exists, store>>
    /\ UNCHANGED <<chunkVars, queryVars, files, pipeline, loaded, all_documents,
                   doc_chunks, embeddings, vectors, upsert_result, ipc, iret,
                   iraised, trace, run, first_run, retrieved>>

IngestNext ==
    \/ IngestCall
    \/ LoadFile
    \/ LoadedCheck
    \/ ChunkDocuments
    \/ GenerateEmbeddings
    \/ PrepareVectors
    \/ InsertDocuments
    \/ IngestReturn
    \/ Reingest
    \/ RetrieveStored
    \/ CreateIndex
    \/ DeleteIndex

(***************************************************************************)
(* Specifications: the chunker alone, the query side alone, the ingestion  *)
(* alone, and all three.                                                   *)
(***************************************************************************)
InitChunker == ChunkInit /\ QueryOff /\ IngestOff
InitQuery == QueryInit /\ ChunkOff /\ IngestOff
InitIngest == IngestInit /\ ChunkOff /\ QueryOff
InitLoopBody == LoopStateInit /\ QueryOff /\ IngestOff

SpecChunker == InitChunker /\ [][ChunkNext]_vars
SpecQuery == InitQuery /\ [][QueryNext]_vars
SpecIngest == InitIngest /\ [][IngestNext]_vars
SpecLoopBody == InitLoopBody /\ [][LoopNext]_vars

Init == InitChunker \/ InitQuery \/ InitIngest \/ InitLoopBody
Next == ChunkNext \/ QueryNext \/ IngestNext \/ LoopNext
Spec == Init /\ [][Next]_vars

(***************************************************************************)
(* Properties of chunk_text.                                               *)
(***************************************************************************)
ChunkPre == chunk_size > chunk_overlap /\ chunk_overlap >= 0
ChunkDone == cpc = "done"
IsExampleRun ==
    /\ text = ExampleText
    /\ chunk_size = 15
    /\ chunk_overlap = 5
    /\ metadata = PyNone

Piece(s, idx) == [text |-> PyStr(s), chunk_index |-> PyInt(idx)]
ExampleFirstThree ==
    << Piece(Rep("A", 10) \o <<" ">> \o Rep("B", 4), 0),      \* [0,15)
       Piece(Rep("B", 10) \o <<" ">> \o Rep("C", 3), 1),      \* [10,25) trimmed
       Piece(<<"B", " ">> \o Rep("C", 10), 2) >>              \* [20,32)

\* C2 as stated: on the 32-character example with window 15 and overlap 5,
\* chunk_text returns exactly three chunks, the trimmed slices [0,15),
\* [10,25) and [20,32) with chunk_index 0, 1, 2.
C2_ExampleThreeChunks ==
    (IsExampleRun /\ ChunkDone) => chunks = ExampleFirstThree

\* C2 amended: the example returns exactly four chunks: the trimmed slices
\* [0,15), [10,25), [20,32) and [30,32) with chunk_index 0, 1, 2, 3 (the
\* cursor 30 is still inside the 32-character text).
C2_ExampleFourChunks ==
    (IsExampleRun /\ ChunkDone) =>
        chunks = Append(ExampleFirstThree, Piece(Rep("C", 2), 3))

C2_Witness == IsExampleRun /\ ChunkDone /\ iters = 4 /\ Len(chunks) = 4

\* C3: for window_size > overlap >= 0 the loop examines at most
\* ceil(len(text) / (window_size - overlap)) windows, and chunk_text
\* terminates: iters grows by one with every iteration and never exceeds the
\* bound, and a call that has not returned can always take its next step.
C3_TerminatesWithinBound ==
    ChunkPre =>
        /\ iters <= Ceil(Len(text), chunk_size - chunk_overlap)
        /\ ChunkDone \/ ENABLED ChunkNext

C3_Witness ==
    /\ ChunkPre
    /\ ChunkDone
    /\ iters >= 3
    /\ iters = Ceil(Len(text), chunk_size - chunk_overlap)

\* C4: for window_size > overlap >= 0 and every metadata mapping, the
\* chunk_index values of the returned chunks are 0, 1, ..., n-1 in emission
\* order.
C4_ContiguousIndex ==
    (ChunkPre /\ ChunkDone) =>
        \A i \in 1..Len(chunks) : chunks[i].chunk_index = PyInt(i - 1)

\* The windows of C5, computed from the text alone: the non-empty trimmed
\* substrings text[k*step, k*step + size) for k*step < len(text).
WindowAt(s, size, step, k) ==
    Strip(SubSeq(s, k * step + 1, Min(k * step + size, Len(s))))
RECURSIVE ExpectedTexts(_, _, _, _)
ExpectedTexts(s, size, step, k) ==
    IF k * step >= Len(s) THEN <<>>
    ELSE LET w == WindowAt(s, size, step, k)
         IN  (IF w = <<>> THEN <<>> ELSE <<w>>) \o ExpectedTexts(s, size, step, k + 1)

MetadataKept(c) ==
    metadata /= PyNone => \A k \in DOMAIN metadata : c[k] = metadata[k]

\* C5: for window_size > overlap >= 0 the texts of the returned chunks are
\* exactly the non-empty trimmed windows text[k*step, k*step + window_size),
\* k*step < len(text), in increasing k, each chunk carrying the supplied
\* metadata unchanged; blank text yields the empty list.
C5_WindowTexts ==
    (ChunkPre /\ ChunkDone) =>
        /\ [i \in 1..Len(chunks) |-> chunks[i].text.v]
              = ExpectedTexts(text, chunk_size, chunk_size - chunk_overlap, 0)
        /\ \A i \in 1..Len(chunks) : MetadataKept(chunks[i])
        /\ IsBlank(text) => chunks = <<>>

\* The metadata has neither of the keys chunk_text itself writes.
NoReservedKeys ==
    metadata = PyNone \/ (DOMAIN metadata) \cap {"text", "chunk_index"} = {}

\* With such metadata the indexes are contiguous from 0, skipped windows
\* included.
ContiguousWithoutReservedKeys == NoReservedKeys => C4_ContiguousIndex

\* With such metadata the chunk texts are exactly the non-empty trimmed
\* windows.
WindowTextsWithoutReservedKeys == NoReservedKeys => C5_WindowTexts

\* A run that skipped a blank window and still emitted two chunks.
SkippedWindowReached ==
    /\ ChunkPre /\ ChunkDone /\ NoReservedKeys
    /\ iters > Len(chunks)
    /\ Len(chunks) >= 2

(***************************************************************************)
(* Properties of the query side.                                           *)
(***************************************************************************)
\* Retriever.retrieve has returned its dict to the caller
RetrievalReturned ==
    /\ op \in {"retrieve", "generate_answer"}
    /\ \/ qpc \in {"branch", "generate", "done"}
       \/ qpc = "raised" /\ raised \in {"KeyError", "GenerationError"}

\* the normalizing loop of retrieve has run, to its end or to an exception
NormalizeAttempted ==
    /\ op \in {"retrieve", "generate_answer"}
    /\ \/ RetrievalReturned
       \/ qpc = "raised" /\ raised = "AttributeError"

\* C1: in generate_answer, when retrieval returns zero chunks the chat
\* completion is never invoked, and the result is the fixed fallback answer
\* with chunks = [], generation_latency_ms = 0 and the retrieval latency the
\* retriever reported.
C1_EmptyRetrievalShortCircuit ==
    (op = "generate_answer" /\ RetrievalReturned
        /\ retrieval_result["chunks"] = <<>>) =>
        /\ gen_calls = 0
        /\ qpc \in {"branch", "done"}
        /\ raised = "none"
        /\ qpc = "done" =>
              /\ ret.answer = "I couldn't find any relevant information to answer your question."
              /\ ret.chunks = <<>>
              /\ ret.generation_latency_ms = 0
              /\ ret.retrieval_latency_ms = retrieval_result["retrieval_latency_ms"]
              /\ ret.retrieval_latency_ms = result["retrieval_latency_ms"]

C1_Witness ==
    /\ op = "generate_answer"
    /\ qpc = "done"
    /\ result["results"] = <<>>
    /\ retrieval_result["chunks"] = <<>>
    /\ ret.chunks = <<>>
    /\ ret.retrieval_latency_ms = 10
    /\ gen_calls = 0

\* C6: format_citation resolves the location first match wins: a present,
\* truthy page_number gives "page n"; else a present, truthy paragraph_index
\* gives "para n"; else "chunk {chunk_index}".  page_number=3 with
\* paragraph_index=7 renders "page 3".
C6_CitationPrecedence ==
    (op = "format_citation" /\ qpc = "done") =>
        LET c == in_chunk
            Has(k) == k \in DOMAIN c /\ c[k] /= PyNone /\ c[k].v /= 0
            doc == IF "document_name" \in DOMAIN c THEN c["document_name"].v
                   ELSE "Unknown"
            idx == IF "chunk_index" \in DOMAIN c THEN c["chunk_index"].v ELSE 0
            Cite(loc) == "[" \o doc \o " - " \o loc \o "]"
        IN  /\ Has("page_number") =>
                  ret.v = Cite("page " \o ToString(c["page_number"].v))
            /\ (~Has("page_number") /\ Has("paragraph_index")) =>
                  ret.v = Cite("para " \o ToString(c["paragraph_index"].v))
            /\ (~Has("page_number") /\ ~Has("paragraph_index")) =>
                  ret.v = Cite("chunk " \o ToString(idx))
            /\ (Has("page_number") /\ Has("paragraph_index")
                  /\ c["page_number"].v = 3 /\ c["paragraph_index"].v = 7) =>
                  ret.v = Cite("page 3")

C6_Witness ==
    /\ op = "format_citation"
    /\ qpc = "done"
    /\ in_chunk = [page_number |-> PyInt(3), paragraph_index |-> PyInt(7),
                   chunk_index |-> PyInt(4), document_name |-> PyStr("a.pdf")]
    /\ ret = PyStr("[a.pdf - page 3]")

\* The returned chunk list has the length of the raw hit list, and its i-th
\* chunk carries the i-th hit's id and, as similarity, that hit's score.
HitsCarried ==
    LET hs == result["results"]
        cs == retrieval_result["chunks"]
    IN  /\ Len(cs) = Len(hs)
        /\ \A i \in 1..Len(hs) :
              /\ "id" \in DOMAIN hs[i] => cs[i].id = hs[i].id
              /\ "score" \in DOMAIN hs[i] => cs[i].similarity = hs[i].score

\* C7: for every raw hit list the search returns, retrieve returns a chunk
\* list of the same length whose i-th chunk carries the i-th hit's id and,
\* as similarity, that hit's score unchanged, whatever the order of the
\* scores.
C7_OrderAndScorePreserved ==
    NormalizeAttempted => (raised = "none" /\ HitsCarried)

\* Whenever retrieve does return, the hits are carried in order, unclamped.
OrderAndScorePreservedWhenReturned == RetrievalReturned => HitsCarried

\* A returned list whose scores are out of ranked order and outside [0, 1].
OutOfRankOrderReturned ==
    /\ op = "retrieve"
    /\ qpc = "done"
    /\ result["results"] = <<HitNeither, HitBoth, HitPara>>
    /\ [i \in 1..3 |-> ret.chunks[i].similarity.v] = <<150, -20, 95>>
    /\ [i \in 1..3 |-> ret.chunks[i].id.v] = <<"d_4", "c_2", "b.docx_1">>

\* construct_prompt has been called on chunks that all have a text: directly,
\* or by generate_answer on the non-empty list retrieve returned
PromptRequested ==
    \/ /\ op = "construct_prompt"
       /\ qpc /= "call"
       /\ \A i \in 1..Len(rchunks) : "text" \in DOMAIN rchunks[i]
    \/ /\ op = "generate_answer"
       /\ RetrievalReturned
       /\ qpc /= "branch"
       /\ retrieval_result["chunks"] /= <<>>

\* C8: construct_prompt emits one context block per input chunk, numbered
\* 1..n, block i holding the citation and text of the i-th chunk; in
\* generate_answer block i is therefore the block of the i-th hit the search
\* returned.
C8_PromptBlocksInOrder ==
    PromptRequested =>
        LET cs == IF op = "construct_prompt" THEN rchunks
                  ELSE retrieval_result["chunks"]
            Block(i, cite, txt) ==
                "[" \o ToString(i) \o "] " \o cite \o "\n" \o txt \o "\n"
        IN  /\ raised /= "KeyError"
            /\ Len(context_parts) = Len(cs)
            /\ \A i \in 1..Len(cs) :
                  context_parts[i]
                     = Block(i, format_citation(cs[i]), Str(cs[i]["text"]))
            /\ prompt = PromptHead \o Join(context_parts, "\n")
                           \o PromptInstructions \o Query \o PromptTail
            /\ op = "generate_answer" =>
                  /\ Len(context_parts) = Len(result["results"])
                  /\ \A i \in 1..Len(context_parts) :
                        LET md == Get(result["results"][i], "metadata", EmptyDict)
                        IN  context_parts[i]
                               = Block(i, format_citation(normalize_hit(result["results"][i])),
                                       Str(Get(md, "text", PyStr(""))))

C8_Witness ==
    /\ op = "generate_answer"
    /\ qpc = "done"
    /\ gen_calls = 1
    /\ result["results"] = <<HitPara, HitPage, HitNeither>>
    /\ context_parts = << "[1] [b.docx - para 7]\ntb\n",
                          "[2] [a.pdf - page 3]\nta\n",
                          "[3] [d - chunk 4]\ntd\n" >>

\* C9: a malformed hit (missing id, score or metadata, null metadata, or
\* metadata missing fields) never makes retrieve fail: every hit of the
\* batch is returned, the malformed one with defaulted fields (empty string,
\* zero).
C9_MalformedHitNeverFails ==
    NormalizeAttempted =>
        /\ raised /= "AttributeError"
        /\ Len(retrieval_result["chunks"]) = Len(result["results"])
        /\ \A i \in 1..Len(result["results"]) :
              LET h == result["results"][i]
                  c == retrieval_result["chunks"][i]
              IN  /\ "id" \notin DOMAIN h => c.id = PyStr("")
                  /\ "score" \notin DOMAIN h => c.similarity = PyInt(0)
                  /\ ("metadata" \notin DOMAIN h \/ IsNone(h["metadata"])
                        \/ h["metadata"] = EmptyDict) =>
                        /\ c.text = PyStr("")
                        /\ c.document_name = PyStr("")
                        /\ c.chunk_index = PyInt(0)

\* Whenever retrieve does return, the fields a hit lacks are defaulted.
DefaultsWhenReturned ==
    RetrievalReturned => C9_MalformedHitNeverFails

\* A returned batch that holds hits without id, without score and without
\* metadata.
MalformedBatchReturned ==
    /\ op = "retrieve"
    /\ qpc = "done"
    /\ result["results"] = <<HitNoId, HitNoScore, HitNoMetadata>>

\* C10: construct_prompt never raises, whatever the chunks: a chunk lacking
\* text, document_name or the location keys degrades to defaults.
C10_PromptNeverRaises ==
    (op = "construct_prompt" /\ qpc /= "call") =>
        /\ raised = "none"
        /\ qpc = "done"
        /\ Len(context_parts) = Len(rchunks)

\* C11: format_citation never raises, whatever the chunk mapping, and an
\* absent document_name renders as "Unknown": for a chunk handed to it
\* directly, and for a chunk that reaches it through the normalizing loop of
\* retrieve from a hit whose metadata had no document_name.
C11_AbsentNameRendersUnknown ==
    LET Unknown(c) == "[Unknown - " \o location(c) \o "]"
    IN  /\ (op = "format_citation" /\ qpc /= "call") =>
              /\ qpc = "done"
              /\ raised = "none"
              /\ "document_name" \notin DOMAIN in_chunk => ret.v = Unknown(in_chunk)
        /\ (op = "generate_answer" /\ PromptRequested) =>
              \A i \in 1..Len(result["results"]) :
                 LET h == result["results"][i]
                     md == Get(h, "metadata", EmptyDict)
                 IN  "document_name" \notin DOMAIN md =>
                        context_parts[i]
                           = "[" \o ToString(i) \o "] " \o Unknown(normalize_hit(h))
                                \o "\n" \o Str(Get(md, "text", PyStr(""))) \o "\n"

\* C11 amended: format_citation never raises, and a chunk mapping without a
\* document_name key renders "Unknown"; a chunk that comes from the
\* normalizing loop of retrieve always has the key, defaulted to the empty
\* string when the hit's metadata had none, so its citation carries an
\* empty name, not "Unknown".
C11_UnknownOnlyWhenKeyAbsent ==
    /\ (op = "format_citation" /\ qpc /= "call") =>
          /\ qpc = "done"
          /\ raised = "none"
          /\ "document_name" \notin DOMAIN in_chunk =>
                ret.v = "[Unknown - " \o location(in_chunk) \o "]"
    /\ (op = "generate_answer" /\ PromptRequested) =>
          \A i \in 1..Len(result["results"]) :
             LET md == Get(result["results"][i], "metadata", EmptyDict)
             IN  "document_name" \notin DOMAIN md =>
                    context_parts[i]
                       = "[" \o ToString(i) \o "] [ - " \o location(md) \o "]\n"
                            \o Str(Get(md, "text", PyStr(""))) \o "\n"

\* A hit with empty metadata, cited in the prompt with an empty name.
C11_Witness ==
    /\ op = "generate_answer"
    /\ qpc = "done"
    /\ result["results"] = <<HitEmptyMetadata>>
    /\ context_parts = <<"[1] [ - chunk 0]\n\n">>

\* the retrieval of this call has returned its latency to its caller
LatencyReported ==
    /\ RetrievalReturned
    /\ op = "generate_answer" => qpc = "done"

\* C14: the retrieval_latency_ms reported by retrieve and by generate_answer
\* covers the interval from the start of the query-embedding call to the end
\* of the vector search, measured on the logical clock and rounded to two
\* decimals.
C14_LatencyCoversEmbeddingAndSearch ==
    LatencyReported =>
        ret.retrieval_latency_ms \in Round2(stamps.search_end - stamps.embed_start)

\* C14 amended: the reported retrieval_latency_ms covers the vector search
\* alone, from just before the search request to just after its response;
\* the time of the query-embedding call is not part of it.
C14_LatencyCoversSearchOnly ==
    LatencyReported =>
        /\ ret.retrieval_latency_ms \in Round2(stamps.search_end - stamps.search_start)
        /\ stamps.search_start > stamps.embed_start
        /\ ret.retrieval_latency_ms = retrieval_result["retrieval_latency_ms"]

\* An answer whose embedding took 12 microseconds and whose search took 4:
\* the reported latency rounds the 4 to 0.00 ms.
C14_Witness ==
    /\ op = "generate_answer"
    /\ qpc = "done"
    /\ gen_calls = 1
    /\ stamps.search_start - stamps.embed_start = 12
    /\ stamps.search_end - stamps.search_start = 4
    /\ ret.retrieval_latency_ms = 0

(***************************************************************************)
(* chunk_text outside its precondition.                                    *)
(***************************************************************************)
\* the loop body run from the cursor position c
from_cursor(c) ==
    chunk_body(text, chunk_size, chunk_overlap, metadata,
               [start |-> c, chunk_index |-> 0, chunks |-> <<>>])

\* C16: for non-blank text and overlap >= window_size the cursor never
\* advances past its initial position 0 and the loop never terminates: the
\* call is in its loop after any number of iterations, the cursor at most
\* 0 and the loop test true, and the next iteration moves the cursor by
\* window_size - overlap <= 0 and ends with the loop test still true, the
\* check of lines 59-60 not leaving the loop; the same holds of the body
\* run from any cursor position at most 0, so of every later iteration.
C16_NoProgressLoopsForever ==
    (cpc /= "off" /\ ~IsBlank(text) /\ chunk_overlap >= chunk_size) =>
        /\ start <= 0
        /\ cpc = "loop"
        /\ loop_continues(text, [start |-> start])
        /\ iterated /= PyNone =>
              /\ iterated.start = start + chunk_size - chunk_overlap
              /\ iterated.start <= start
              /\ iterated.cpc = "loop"
              /\ Len(iterated.chunks) >= Len(chunks)
        /\ \A c \in -(MaxIters * MaxWin)..0 :
              /\ loop_continues(text, [start |-> c])
              /\ from_cursor(c).start <= c
              /\ loop_continues(text, from_cursor(c))

\* A call with overlap = window_size after MaxIters iterations and one
\* more: the cursor still at 0, one more copy of the first window emitted
\* by every iteration, the loop test true.
C16_Witness ==
    /\ ~IsBlank(text)
    /\ chunk_overlap = chunk_size
    /\ cpc = "loop"
    /\ iters = MaxIters
    /\ start = 0
    /\ Len(chunks) = MaxIters
    /\ iterated /= PyNone
    /\ iterated.start = 0
    /\ iterated.cpc = "loop"
    /\ Len(iterated.chunks) = MaxIters + 1

\* A call with overlap > window_size whose cursor has fallen below 0 and
\* falls further.
CursorFalls ==
    /\ chunk_overlap > chunk_size
    /\ start < 0
    /\ iterated /= PyNone
    /\ iterated.start < start

(***************************************************************************)
(* Properties of the ingestion.                                            *)
(***************************************************************************)
\* the sections of the files that load, file after file
RECURSIVE SectionsOf(_)
SectionsOf(fs) ==
    IF fs = <<>> THEN <<>>
    ELSE LET ld == load_document(Head(fs))
         IN  (IF ld.raised = "none" THEN ld.docs ELSE <<>>) \o SectionsOf(Tail(fs))

\* the load loop has gone through every file and the check after it is made
LoadFinished == ipc \notin {"off", "call", "load"}

\* C12: in ingest_documents a file whose load raises is skipped and the
\* remaining files are still loaded in order; the run returns the load
\* failure (success false, "No documents were successfully loaded", zero
\* chunks and vectors, no embedding or store call) exactly when no file
\* yielded any section.
C12_LoadFailureIffNoSections ==
    /\ ipc = "load" => all_documents = SectionsOf(SubSeq(files, 1, loaded))
    /\ LoadFinished =>
          /\ loaded = Len(files)
          /\ all_documents = SectionsOf(files)
          /\ (iret = load_failure)
                <=> (\A i \in 1..Len(files) :
                        \/ load_document(files[i]).raised /= "none"
                        \/ load_document(files[i]).docs = <<>>)
    /\ iret = load_failure =>
          /\ ipc = "done"
          /\ ~iret.success
          /\ iret.error = "No documents were successfully loaded"
          /\ iret.chunks_created = 0 /\ iret.vectors_stored = 0
          /\ trace.embed_calls = 0 /\ trace.upsert_calls = 0
          /\ doc_chunks = <<>> /\ vectors = <<>>
          /\ iraised = "none"

\* A run over an unsupported file and a PDF without text: the first is
\* skipped, the second loads no section, the run returns the load failure.
C12_Witness ==
    /\ files = <<TxtD, BlankPdf>>
    /\ loaded = 2
    /\ ipc = "done"
    /\ iret = load_failure

\* A run that skipped a broken file and went on with the sections of the
\* file after it.
SkippedFileThenLoaded ==
    /\ files = <<BrokenPdf, DocxB>>
    /\ ipc = "done"
    /\ iret.success
    /\ Len(all_documents) = 2

Ids(vs) == [j \in 1..Len(vs) |-> vs[j].id.v]
IdSet(vs) == {vs[j].id.v : j \in 1..Len(vs)}
NameOf(vs, j) == vs[j].metadata.document_name.v

\* the number of earlier records of the same document
IndexInDocument(vs, j) ==
    Cardinality({i \in 1..(j - 1) : NameOf(vs, i) = NameOf(vs, j)})

PairwiseDistinct(vs) ==
    \A i, j \in 1..Len(vs) : i /= j => vs[i].id /= vs[j].id

\* the records of this run are prepared
VectorsPrepared == vectors /= <<>>

\* the store has taken the records of this run
Upserted == ipc \in {"report", "done", "retrieved"} /\ trace.upsert_calls = 1

\* C13: within one ingest_documents call the record ids are pairwise
\* distinct, and an id is determined only by the chunk's document_name and
\* its emission index within that document: two records with the same name
\* and the same index within their document have the same id, in this run
\* or in an earlier one, so ingesting the same ordered file list again
\* gives the same set of ids.
C13_IdFromNameAndIndexInDocument ==
    VectorsPrepared =>
        /\ PairwiseDistinct(vectors)
        /\ run = 2 =>
              /\ \A j \in 1..Len(vectors), i \in 1..Len(first_run.vectors) :
                    (/\ NameOf(vectors, j) = NameOf(first_run.vectors, i)
                     /\ IndexInDocument(vectors, j)
                           = IndexInDocument(first_run.vectors, i))
                       => vectors[j].id = first_run.vectors[i].id
              /\ files = first_run.files => IdSet(vectors) = IdSet(first_run.vectors)

\* C13 amended: within one ingest_documents call the record ids are
\* pairwise distinct, and an id is the chunk's document_name followed by
\* the chunk's position in the run's whole chunk list, counted from 0
\* across all documents; ingesting the same ordered file list again gives
\* the same ids and adds no record to the index: the index holds the
\* records of exactly these ids when the second upsert has answered, and
\* these or, once deleted, none at any other time of the second run.
C13_IdFromNameAndRunPosition ==
    VectorsPrepared =>
        /\ PairwiseDistinct(vectors)
        /\ Len(vectors) = Len(doc_chunks)
        /\ \A j \in 1..Len(vectors) :
              vectors[j].id.v
                 = doc_chunks[j].document_name.v \o "_" \o ToString(j - 1)
        /\ (run = 2 /\ files = first_run.files) =>
              /\ Ids(vectors) = Ids(first_run.vectors)
              /\ DOMAIN store \in {{}, IdSet(first_run.vectors)}
              /\ ipc = "report" => DOMAIN store = IdSet(first_run.vectors)

\* The list a.pdf, b.DOCX ingested twice: eight records, b.DOCX's first at
\* position 5, and still eight in the index after the second run.
C13_Witness ==
    /\ run = 2
    /\ files = <<PdfA, DocxB>>
    /\ first_run.files = files
    /\ ipc = "done"
    /\ iret.success
    /\ Len(vectors) = 8
    /\ vectors[6].id = PyStr("b.DOCX_5")
    /\ Cardinality(DOMAIN store) = 8

StageOrder == <<"Loading", "Chunking", "Embedding", "Storing", "Complete">>

IsPrefix(p, q) == Len(p) <= Len(q) /\ p = SubSeq(q, 1, Len(p))

\* C15: every ingest_documents run passes through the stages in the order
\* Loading, Chunking, Embedding, Storing, Complete; the embedding call and
\* the upsert call are each made at most once per run; the upsert is made
\* only after the embedding call succeeded; a failure of the embedding or of
\* the upsert call ends the run by propagating, no later stage executing.
C15_StagesInOrder ==
    ipc /= "off" =>
        /\ IsPrefix(trace.stages, StageOrder)
        /\ trace.embed_calls <= 1 /\ trace.upsert_calls <= 1
        /\ trace.embed_calls = 1 <=> Len(trace.stages) >= 3
        /\ trace.upsert_calls = 1 <=> Len(trace.stages) >= 4
        /\ trace.upsert_calls = 1 =>
              /\ trace.embed_calls = 1
              /\ Len(embeddings) = Len(doc_chunks)
              /\ iraised /= "EmbeddingError"
        /\ (ipc = "done" /\ iret.success) => trace.stages = StageOrder
        /\ iraised = "EmbeddingError" =>
              /\ ipc = "raised"
              /\ trace.stages = SubSeq(StageOrder, 1, 3)
              /\ trace.upsert_calls = 0
              /\ vectors = <<>>
              /\ iret = PyNone
        /\ iraised = "RequestException" =>
              /\ ipc = "raised"
              /\ trace.stages = SubSeq(StageOrder, 1, 4)
              /\ iret = PyNone

\* The run never steps back: the stages entered only grow, by the next
\* stage of the order, and a run that raised takes no further step.
StagesOnlyAdvance ==
    [][(run' = run) =>
          /\ IsPrefix(trace.stages, trace'.stages)
          /\ Len(trace'.stages) <= Len(trace.stages) + 1
          /\ ipc = "raised" => UNCHANGED ingestVars]_vars

\* A second run on the same index that failed in the upsert call: four
\* stages entered, one embedding call, one upsert call, nothing returned.
C15_Witness ==
    /\ run = 2
    /\ ipc = "raised"
    /\ iraised = "RequestException"
    /\ trace = [stages |-> <<"Loading", "Chunking", "Embedding", "Storing">>,
                embed_calls |-> 1, upsert_calls |-> 1]

\* A run that failed in the embedding call.
EmbeddingFailureReached ==
    /\ ipc = "raised"
    /\ iraised = "EmbeddingError"
    /\ trace.embed_calls = 1

\* chunk_documents has returned to ingest_documents
ChunkingDone == ipc \notin {"off", "call", "load", "chunk"}

\* the trimmed non-empty windows of a section, from its text alone
WindowsOf(doc) ==
    ExpectedTexts(doc.text.v, pipeline.chunk_size,
                  pipeline.chunk_size - pipeline.chunk_overlap, 0)

\* the number of chunks of the first n sections
RECURSIVE ChunksBefore(_, _)
ChunksBefore(docs, n) ==
    IF n = 0 THEN 0 ELSE ChunksBefore(docs, n - 1) + Len(WindowsOf(docs[n]))

\* C17: chunk_documents returns the concatenation, in input order, of
\* chunk_text applied to each section separately: the chunks of section i
\* follow those of sections 1..i-1 without interleaving, their chunk_index
\* restarts at 0, and each carries every non-text field of its own section
\* and no other field.
C17_ChunksPerSectionInOrder ==
    ChunkingDone =>
        /\ Len(doc_chunks) = ChunksBefore(all_documents, Len(all_documents))
        /\ \A i \in 1..Len(all_documents) :
              LET doc == all_documents[i]
                  w == WindowsOf(doc)
              IN  \A k \in 1..Len(w) :
                     LET c == doc_chunks[ChunksBefore(all_documents, i - 1) + k]
                     IN  /\ c.text = PyStr(w[k])
                         /\ c.chunk_index = PyInt(k - 1)
                         /\ DOMAIN c = {"text", "chunk_index"}
                                          \cup ((DOMAIN doc) \ {"text"})
                         /\ \A f \in (DOMAIN doc) \ {"text"} : c[f] = doc[f]

\* a.pdf and b.DOCX chunked with window 2, overlap 1: four chunks of page 1,
\* one of page 3, one of paragraph 1, two of paragraph 3, the index
\* restarting with every section.
C17_Witness ==
    /\ files = <<PdfA, DocxB>>
    /\ pipeline.chunk_size = 2
    /\ ipc = "embed"
    /\ Len(all_documents) = 4
    /\ [j \in 1..Len(doc_chunks) |-> doc_chunks[j].chunk_index.v]
          = <<0, 1, 2, 3, 0, 0, 0, 1>>
    /\ doc_chunks[5].page_number = PyInt(3)
    /\ DOMAIN doc_chunks[6]
          = {"text", "chunk_index", "document_name", "paragraph_index"}

\* the field is present and not None
IsSet(d, k) == k \in DOMAIN d /\ ~IsNone(d[k])

AtMostOneLocation(d) == ~(IsSet(d, "page_number") /\ IsSet(d, "paragraph_index"))

\* the section whose chunks include the j-th chunk of the run
SectionOfChunk(j) ==
    CHOOSE i \in 1..Len(all_documents) :
       /\ ChunksBefore(all_documents, i - 1) < j
       /\ j <= ChunksBefore(all_documents, i)

\* the position in the run of the record a retrieved chunk came from
RecordOf(c) == CHOOSE j \in 1..Len(vectors) : vectors[j].id = c.id

\* C18: along loader section -> chunk -> stored record metadata ->
\* retrieved chunk the location is preserved and exclusive: no section,
\* chunk, record or retrieved chunk has both page_number and
\* paragraph_index set, and a retrieved chunk has page_number (resp.
\* paragraph_index) set exactly when its source section had it, with the
\* same value, so its citation names the source page or paragraph.
C18_LocationPreserved ==
    ipc /= "off" =>
        /\ \A i \in 1..Len(all_documents) : AtMostOneLocation(all_documents[i])
        /\ \A j \in 1..Len(doc_chunks) : AtMostOneLocation(doc_chunks[j])
        /\ \A j \in 1..Len(vectors) : AtMostOneLocation(vectors[j].metadata)
        /\ \A id \in DOMAIN store : AtMostOneLocation(store[id].metadata)
        /\ \A n \in 1..Len(retrieved) :
              LET c == retrieved[n]
                  sec == all_documents[SectionOfChunk(RecordOf(c))]
                  name == sec.document_name.v
              IN  /\ AtMostOneLocation(c)
                  /\ \A k \in {"page_number", "paragraph_index"} :
                        /\ IsSet(c, k) <=> IsSet(sec, k)
                        /\ IsSet(sec, k) => c[k] = sec[k]
                  /\ IsSet(sec, "page_number") =>
                        format_citation(c)
                           = "[" \o name \o " - page " \o ToString(sec.page_number.v) \o "]"
                  /\ IsSet(sec, "paragraph_index") =>
                        format_citation(c)
                           = "[" \o name \o " - para "
                                \o ToString(sec.paragraph_index.v) \o "]"
                  /\ IsSet(sec, "page_number") \/ IsSet(sec, "paragraph_index")

\* All eight records of a.pdf and b.DOCX retrieved, last first: the first
\* hit cites paragraph 3 of b.DOCX, the fourth page 3 of a.pdf.
C18_Witness ==
    /\ ipc = "retrieved"
    /\ files = <<PdfA, DocxB>>
    /\ Len(retrieved) = 8
    /\ format_citation(retrieved[1]) = "[b.DOCX - para 3]"
    /\ format_citation(retrieved[4]) = "[a.pdf - page 3]"
    /\ retrieved[4].paragraph_index = PyNone
    /\ retrieved[1].page_number = PyNone

=============================================================================
